---- MODULE Spec2Model ----
(***************************************************************************)
(* A model of n8n-py: the N8NClient facade (src/n8n/client.py), its five   *)
(* sub-clients, the pydantic entities (src/n8n/models.py) and the          *)
(* blueprint helpers (src/n8n/blueprints.py).                              *)
(*                                                                         *)
(* Encoding.  Python's Optional[T] is a sequence of length 0 or 1: None is *)
(* <<>> and a value x is <<x>>.  A JSON object / Python dict is a function *)
(* from its keys; a member that belongs to an Optional field is written    *)
(* the same way (None is JSON null).  A JSON array / Python list is a      *)
(* sequence.  The outcome of a call is Return(value) or Raise(exception);  *)
(* an exception is a record of its Python class, its message and the       *)
(* httpx response it carries, if any.                                      *)
(***************************************************************************)
EXTENDS Integers, Sequences, FiniteSets, TLC

VARIABLES
    phase,        \* "start" | "constructed" | "entered" | "failed" | "closed"
    scoped,       \* TRUE: the caller uses `with N8NClient(...) as c:`
    transport,    \* the httpx.Client: "absent" | "open" | "closed"
    closeCalls,   \* how many times httpx.Client.close() was called
    bodyRaised,   \* the with-body ended by raising
    probe,        \* what the constructor's connectivity check met on the network
    last          \* the last invocation: op, input, requests sent, response, outcome

vars == <<phase, scoped, transport, closeCalls, bodyRaised, probe, last>>

\* ---------------------------------------------------------------- bounds

\* The longest node list of a blueprint or of a locally built Workflow.
MaxNodes == 2
\* How many times a caller that does not use `with` calls close().
MaxCloseCalls == 2

\* ------------------------------------------------------- Python values

None == <<>>
Some(x) == <<x>>

\* `if cursor:` / `if name:` on an Optional[str]: None and "" are both falsy.
Truthy(o) == o # None /\ o[1] # ""

EmptyDict == [k \in {} |-> TRUE]

Return(v) == [kind |-> "return", value |-> v]
Raise(e) == [kind |-> "raise", exc |-> e]

Exc(cls, msg, response) == [cls |-> cls, msg |-> msg, response |-> response]

\* N8NError.__init__(message): the library's only exception class; it keeps
\* the message and nothing else.
N8NError(message) == Exc("N8NError", message, None)

KeyError(key) == Exc("KeyError", key, None)

ValidationError(model) == Exc("pydantic.ValidationError", model, None)

\* -------------------------------------------------------------- httpx

\* What the network does with one request: the transport fails, or a response
\* with a status code and a body arrives.  A body is JSON (an object or an
\* array) or text that is not JSON.
TransportErrors == {"httpx.ConnectError", "httpx.ReadTimeout"}

TransportFailure(err) == [kind |-> "transport", err |-> err]
\* The httpx.Client has been closed: a request is refused before it is sent.
ClosedTransport == [kind |-> "closed"]
Response(status, body) == [kind |-> "status", status |-> status, body |-> body]

ObjectBody(val) == [kind |-> "object", val |-> val]
ArrayBody == [kind |-> "array", val |-> [items |-> "[]"]]
TextBody == [kind |-> "text", val |-> [raw |-> "<html>"]]
ErrorBody == [kind |-> "object", val |-> [message |-> "error"]]

OkStatuses == {200}
ErrorStatuses == {302, 404, 500}

\* httpx.Response.is_success
is_success(resp) == 200 <= resp.status /\ resp.status <= 299

\* httpx.HTTPError and its subclasses: what `except httpx.HTTPError` catches.
IsHTTPError(cls) == cls \in TransportErrors \cup {"httpx.HTTPStatusError"}

\* httpx.Client.request / get / post / put / delete: the response, or the
\* transport's exception; on a closed client, RuntimeError, which is no
\* httpx.HTTPError, and nothing is sent.
Send(net) ==
    IF net.kind = "closed"
    THEN Raise(Exc("RuntimeError", "Cannot send a request, as the client has been closed.", None))
    ELSE IF net.kind = "transport" THEN Raise(Exc(net.err, net.err, None))
    ELSE Return(net)

\* httpx.Response.raise_for_status(): HTTPStatusError, carrying the response,
\* for every status that is not 2xx.
raise_for_status(resp) ==
    IF is_success(resp) THEN Return(resp)
    ELSE Raise(Exc("httpx.HTTPStatusError", "status error", Some(resp)))

\* httpx.Response.json()
json(resp) ==
    IF resp.body.kind = "text" THEN Raise(Exc("json.JSONDecodeError", "not JSON", None))
    ELSE Return(resp.body)

\* The responses the network can give to a request whose successful bodies
\* are `okBodies`.
Responses(okBodies) ==
    {TransportFailure(e) : e \in TransportErrors}
    \cup {Response(s, ErrorBody) : s \in ErrorStatuses}
    \cup {Response(s, b) : s \in OkStatuses, b \in okBodies \cup {TextBody}}

\* ------------------------------------------------------------ pydantic

\* A model class: its required fields, its Optional fields (default None) and
\* its other defaulted fields.
TagSchema ==
    [req |-> {"name"}, opt |-> {"id", "createdAt", "updatedAt"}, dflt |-> EmptyDict]

NodeSchema ==
    [req |-> {"id", "name", "type", "typeVersion", "position"},
     opt |-> {"webhookId", "notes", "maxTries", "waitBetweenTries", "onError",
              "credentials", "createdAt", "updatedAt"},
     dflt |-> [parameters |-> EmptyDict, disabled |-> FALSE, notesInFlow |-> FALSE,
               executeOnce |-> FALSE, alwaysOutputData |-> FALSE,
               retryOnFail |-> FALSE, continueOnFail |-> FALSE]]

WorkflowSettingsSchema ==
    [req |-> {},
     opt |-> {"executionTimeout", "errorWorkflow", "timezone"},
     dflt |-> [saveExecutionProgress |-> TRUE, saveManualExecutions |-> TRUE,
               saveDataErrorExecution |-> "all", saveDataSuccessExecution |-> "all",
               executionOrder |-> "v1"]]

ExecutionSchema ==
    [req |-> {"id", "mode", "workflowId"},
     opt |-> {"data", "retryOf", "retrySuccessId", "startedAt", "stoppedAt",
              "waitTill", "customData"},
     dflt |-> [finished |-> FALSE]]

CredentialSchema ==
    [req |-> {"name", "type", "data"}, opt |-> {"id", "createdAt", "updatedAt"},
     dflt |-> EmptyDict]

CredentialSchemaSchema ==
    [req |-> {"properties", "required"}, opt |-> {},
     dflt |-> [additionalProperties |-> FALSE, type |-> "object"]]

AuditOptionsSchema ==
    [req |-> {}, opt |-> {"additionalOptions"}, dflt |-> EmptyDict]

AuditSchema ==
    [req |-> {}, opt |-> {"credentials", "database", "filesystem", "nodes", "instance"},
     dflt |-> EmptyDict]

ListSchema ==
    [req |-> {"data"}, opt |-> {"nextCursor"}, dflt |-> EmptyDict]

Fields(s) == s.req \cup s.opt \cup DOMAIN s.dflt

\* BaseModel(**d) / model_validate(d) / parse_obj(d) for a model without nested
\* models: every required field must be there, unknown keys are ignored, a
\* field left out takes its default.
Validate(name, s, d) ==
    IF ~(s.req \subseteq DOMAIN d) THEN Raise(ValidationError(name))
    ELSE Return([f \in Fields(s) |->
                    IF f \in DOMAIN d THEN d[f]
                    ELSE IF f \in s.opt THEN None
                    ELSE s.dflt[f]])

\* model_dump(exclude_none=True, exclude=...) / dict(exclude_none=True) for a
\* model without nested models.
Dump(s, m, exclude) ==
    [f \in {g \in Fields(s) : g \notin exclude /\ ~(g \in s.opt /\ m[g] = None)} |-> m[f]]

\* ------------------------------------------------------------ Workflow

NodeValidate(d) == Validate("Node", NodeSchema, d)

SettingsValidate(d) == Validate("WorkflowSettings", WorkflowSettingsSchema, d)

\* WorkflowSettings(): Workflow.settings' default_factory
DefaultSettings == SettingsValidate(EmptyDict).value

WorkflowSchema ==
    [req |-> {"name", "nodes", "connections"},
     opt |-> {"id", "createdAt", "updatedAt"},
     dflt |-> [settings |-> DefaultSettings, staticData |-> EmptyDict]]

\* Workflow.connections: Dict[str, Dict[str, List[List[Dict[str, Any]]]]] is
\* validated level by level into a new value.
ValidateConnections(c) ==
    [n \in DOMAIN c |->
        [t \in DOMAIN c[n] |->
            [i \in DOMAIN c[n][t] |->
                [j \in DOMAIN c[n][t][i] |->
                    [k \in DOMAIN c[n][t][i][j] |-> c[n][t][i][j][k]]]]]]

\* Workflow(**d) / Workflow.model_validate(d) / Workflow.parse_obj(d): the
\* nodes and the settings are validated as models of their own.
WorkflowValidate(d) ==
    LET base == Validate("Workflow", WorkflowSchema, d) IN
    IF base.kind = "raise" THEN base
    ELSE IF \E i \in DOMAIN d.nodes : NodeValidate(d.nodes[i]).kind = "raise"
    THEN Raise(ValidationError("Workflow"))
    ELSE Return([base.value EXCEPT
                    !.nodes = [i \in DOMAIN d.nodes |-> NodeValidate(d.nodes[i]).value],
                    !.settings = SettingsValidate(@).value,
                    !.connections = ValidateConnections(@)])

\* A dump whose `exclude` reaches the nested models too, so that the nodes
\* lose their ids.
WorkflowDumpDeepExclude(w, exclude) ==
    LET flat == Dump(WorkflowSchema, w, exclude) IN
    [f \in DOMAIN flat |->
        CASE f = "nodes" -> [i \in DOMAIN w.nodes |-> Dump(NodeSchema, w.nodes[i], exclude)]
          [] f = "settings" -> Dump(WorkflowSettingsSchema, w.settings, exclude)
          [] OTHER -> flat[f]]

\* Workflow.model_dump(exclude_none=True, exclude=...) and
\* Workflow.dict(exclude_none=True): exclude_none reaches the nested models,
\* `exclude` names top-level fields.
WorkflowDump(w, exclude) ==
    LET flat == Dump(WorkflowSchema, w, exclude) IN
    [f \in DOMAIN flat |->
        CASE f = "nodes" -> [i \in DOMAIN w.nodes |-> Dump(NodeSchema, w.nodes[i], {})]
          [] f = "settings" -> Dump(WorkflowSettingsSchema, w.settings, {})
          [] OTHER -> flat[f]]

\* <Model>(**d) / <Model>.parse_obj(d) / <Model>.model_validate(d)
ValidateModel(model, d) ==
    CASE model = "Workflow" -> WorkflowValidate(d)
      [] model = "Execution" -> Validate(model, ExecutionSchema, d)
      [] model = "Credential" -> Validate(model, CredentialSchema, d)
      [] model = "Tag" -> Validate(model, TagSchema, d)
      [] model = "CredentialSchema" -> Validate(model, CredentialSchemaSchema, d)
      [] model = "AuditOptions" -> Validate(model, AuditOptionsSchema, d)
      [] model = "Audit" -> Validate(model, AuditSchema, d)

\* The entity a list envelope holds: `data: List[<Entity>]`.
ElementOf(listModel) ==
    CASE listModel = "WorkflowList" -> "Workflow"
      [] listModel = "ExecutionList" -> "Execution"
      [] listModel = "CredentialList" -> "Credential"
      [] listModel = "TagList" -> "Tag"

ListModels == {"WorkflowList", "ExecutionList", "CredentialList", "TagList"}

\* WorkflowList / ExecutionList / CredentialList / TagList .parse_obj(d)
ListValidate(listModel, d) ==
    LET base == Validate(listModel, ListSchema, d) IN
    IF base.kind = "raise" THEN base
    ELSE IF \E i \in DOMAIN d.data :
                ValidateModel(ElementOf(listModel), d.data[i]).kind = "raise"
    THEN Raise(ValidationError(listModel))
    ELSE Return([base.value EXCEPT
                    !.data = [i \in DOMAIN d.data |->
                                ValidateModel(ElementOf(listModel), d.data[i]).value]])

\* <Model>.parse_obj(response.json()): the body must be a JSON object of the
\* model's shape.
Parse(model, body) ==
    IF body.kind # "object" THEN Raise(ValidationError(model))
    ELSE IF model \in ListModels THEN ListValidate(model, body.val)
    ELSE ValidateModel(model, body.val)

\* ------------------------------------------------------- HTTP requests

Req(method, path, params, body) ==
    [method |-> method, path |-> path, params |-> params, json |-> body]

\* An invocation that sends its request a second time when the first failed.
CallWithRetry(net, req, out) ==
    [requests |-> IF net.kind = "closed" THEN <<>>
                  ELSE IF out.kind = "raise" THEN <<req, req>> ELSE <<req>>,
     out |-> out]

\* What one invocation did: the HTTP requests it sent and how it ended.  A
\* sub-client method calls self._client.<verb> once, in no loop; the
\* httpx.Client is built with neither a retrying transport nor
\* follow_redirects, so one call is one request, a 3xx included.
\* A closed httpx.Client refuses the call before anything reaches the wire.
Call(net, req, out) ==
    [requests |-> IF net.kind = "closed" THEN <<>> ELSE <<req>>, out |-> out]

\* response = self._client.<verb>(...); response.raise_for_status();
\* return <Model>.parse_obj(response.json())
Decode(net, model) ==
    LET sent == Send(net) IN
    IF sent.kind = "raise" THEN sent
    ELSE LET checked == raise_for_status(sent.value) IN
         IF checked.kind = "raise" THEN checked
         ELSE LET body == json(checked.value) IN
              IF body.kind = "raise" THEN body ELSE Parse(model, body.value)

\* response = self._client.delete(...); response.raise_for_status()
NoDecode(net) ==
    LET sent == Send(net) IN
    IF sent.kind = "raise" THEN sent
    ELSE LET checked == raise_for_status(sent.value) IN
         IF checked.kind = "raise" THEN checked ELSE Return(None)

\* The list parameters with the cursor forgotten.
ListParamsWithoutCursor(limit, cursor) == [limit |-> limit]

\* params = {"limit": limit}; if cursor: params["cursor"] = cursor
ListParams(limit, cursor) ==
    [k \in {"limit"} \cup (IF Truthy(cursor) THEN {"cursor"} ELSE {}) |->
        IF k = "limit" THEN limit ELSE cursor[1]]

\* ------------------------------------------------------ WorkflowsClient

workflows_list(limit, cursor, net) ==
    Call(net, Req("GET", <<"workflows">>, ListParams(limit, cursor), None),
         Decode(net, "WorkflowList"))

workflows_get(workflow_id, net) ==
    Call(net, Req("GET", <<"workflows", workflow_id>>, EmptyDict, None),
         Decode(net, "Workflow"))

workflows_create(workflow, net) ==
    Call(net, Req("POST", <<"workflows">>, EmptyDict, Some(WorkflowDump(workflow, {"id"}))),
         Decode(net, "Workflow"))

workflows_update(workflow_id, workflow, net) ==
    Call(net, Req("PUT", <<"workflows", workflow_id>>, EmptyDict, Some(WorkflowDump(workflow, {}))),
         Decode(net, "Workflow"))

workflows_delete(workflow_id, net) ==
    Call(net, Req("DELETE", <<"workflows", workflow_id>>, EmptyDict, None), NoDecode(net))

\* ----------------------------------------------------- ExecutionsClient

\* params = {"limit": limit, "includeData": include_data}; cursor, status and
\* workflowId are added when truthy.
ExecutionListParams(limit, cursor, status, workflow_id, include_data) ==
    [k \in {"limit", "includeData"}
           \cup (IF Truthy(cursor) THEN {"cursor"} ELSE {})
           \cup (IF Truthy(status) THEN {"status"} ELSE {})
           \cup (IF Truthy(workflow_id) THEN {"workflowId"} ELSE {}) |->
        CASE k = "limit" -> limit
          [] k = "includeData" -> include_data
          [] k = "cursor" -> cursor[1]
          [] k = "status" -> status[1]
          [] k = "workflowId" -> workflow_id[1]]

executions_list(limit, cursor, status, workflow_id, include_data, net) ==
    Call(net, Req("GET", <<"executions">>,
             ExecutionListParams(limit, cursor, status, workflow_id, include_data), None),
         Decode(net, "ExecutionList"))

executions_get(execution_id, include_data, net) ==
    Call(net, Req("GET", <<"executions", execution_id>>, [includeData |-> include_data], None),
         Decode(net, "Execution"))

executions_delete(execution_id, net) ==
    Call(net, Req("DELETE", <<"executions", execution_id>>, EmptyDict, None), NoDecode(net))

\* ---------------------------------------------------- CredentialsClient

credentials_list(limit, cursor, net) ==
    Call(net, Req("GET", <<"credentials">>, ListParams(limit, cursor), None),
         Decode(net, "CredentialList"))

credentials_create(credential, net) ==
    Call(net, Req("POST", <<"credentials">>, EmptyDict, Some(Dump(CredentialSchema, credential, {}))),
         Decode(net, "Credential"))

credentials_delete(credential_id, net) ==
    Call(net, Req("DELETE", <<"credentials", credential_id>>, EmptyDict, None), NoDecode(net))

credentials_get_schema(credential_type, net) ==
    Call(net, Req("GET", <<"credentials", "schema", credential_type>>, EmptyDict, None),
         Decode(net, "CredentialSchema"))

\* ----------------------------------------------------------- TagsClient

tags_list(limit, cursor, net) ==
    Call(net, Req("GET", <<"tags">>, ListParams(limit, cursor), None), Decode(net, "TagList"))

tags_create(tag, net) ==
    Call(net, Req("POST", <<"tags">>, EmptyDict, Some(Dump(TagSchema, tag, {}))),
         Decode(net, "Tag"))

tags_get(tag_id, net) ==
    Call(net, Req("GET", <<"tags", tag_id>>, EmptyDict, None), Decode(net, "Tag"))

tags_delete(tag_id, net) ==
    Call(net, Req("DELETE", <<"tags", tag_id>>, EmptyDict, None), NoDecode(net))

\* ---------------------------------------------------------- AuditClient

\* json=options.dict(exclude_none=True) if options else None
audit_generate(options, net) ==
    Call(net, Req("POST", <<"audit">>, EmptyDict,
             IF options = None THEN None
             ELSE Some(Dump(AuditOptionsSchema, options[1], {}))),
         Decode(net, "Audit"))

\* ------------------------------------------------------------ N8NClient

\* N8NClient._get_headers: the API key header is added when the key is truthy.
get_headers(api_key) ==
    [k \in {"Content-Type", "Accept"}
           \cup (IF Truthy(api_key) THEN {"X-N8N-API-KEY"} ELSE {}) |->
        IF k = "X-N8N-API-KEY" THEN api_key[1] ELSE "application/json"]

\* _verify_connection without its raise_for_status() call.
verify_connection_unchecked(net) ==
    LET sent == Send(net) IN
    IF sent.kind = "raise" /\ IsHTTPError(sent.exc.cls)
    THEN Raise(N8NError("Failed to connect to N8N instance"))
    ELSE Return(None)

\* N8NClient._verify_connection: GET /workflows, raise_for_status; every
\* httpx.HTTPError becomes N8NError("Failed to connect to N8N instance: ...").
verify_connection(net) ==
    LET sent == Send(net)
        checked == IF sent.kind = "raise" THEN sent ELSE raise_for_status(sent.value)
    IN IF checked.kind = "raise" /\ IsHTTPError(checked.exc.cls)
       THEN Raise(N8NError("Failed to connect to N8N instance"))
       ELSE IF checked.kind = "raise" THEN checked
       ELSE Return(None)

\* N8NClient._request: request, raise_for_status, response.json(); every
\* httpx.HTTPError becomes N8NError("API request failed: ...").  No sub-client
\* goes through it: each holds the httpx.Client itself.
request(method, endpoint, net) ==
    LET sent == Send(net)
        checked == IF sent.kind = "raise" THEN sent ELSE raise_for_status(sent.value)
        body == IF checked.kind = "raise" THEN checked ELSE json(checked.value)
    IN Call(net, Req(method, endpoint, EmptyDict, None),
            IF body.kind = "raise" /\ IsHTTPError(body.exc.cls)
            THEN Raise(N8NError("API request failed"))
            ELSE body)

\* ----------------------------------------------------------- blueprints

\* A file on disk: missing, present but not readable by this process, bytes
\* that are not text in the encoding open() decodes with, text that is not
\* JSON, or a JSON document.
MissingFile == [kind |-> "missing", val |-> [path |-> "nowhere.json"]]
UnreadableFile == [kind |-> "unreadable", val |-> [path |-> "locked.json"]]
NonTextFile == [kind |-> "bytes", val |-> [raw |-> "ff fe"]]
BrokenFile == [kind |-> "text", val |-> [raw |-> "{"]]
JsonFile(doc) == [kind |-> "json", val |-> doc]

\* load_blueprint: open(file_path, "r") and json.load(f), neither guarded:
\* the exception of open or of the parser leaves the function as it is.
load_blueprint(file) ==
    CASE file.kind = "missing" -> Raise(Exc("FileNotFoundError", "No such file", None))
      [] file.kind = "unreadable" -> Raise(Exc("PermissionError", "Permission denied", None))
      [] file.kind = "bytes" -> Raise(Exc("UnicodeDecodeError", "invalid start byte", None))
      [] file.kind = "text" -> Raise(Exc("json.JSONDecodeError", "not JSON", None))
      [] OTHER -> Return(file.val)

Min(S) == CHOOSE i \in S : \A j \in S : i <= j

\* dict.get(key, default)
Get(d, key, default) == IF key \in DOMAIN d THEN d[key] ELSE default

\* The first of `keys` that d[key] would raise KeyError for, if any.
FirstMissing(keys, d) ==
    LET missing == {i \in DOMAIN keys : keys[i] \notin DOMAIN d} IN
    IF missing = {} THEN None ELSE Some(keys[Min(missing)])

\* Node(id=node_data["id"], ..., parameters=node_data.get("parameters", {}))
NodeFromBlueprint(node_data) ==
    LET missing == FirstMissing(<<"id", "name", "type", "typeVersion", "position">>, node_data) IN
    IF missing # None THEN Raise(KeyError(missing[1]))
    ELSE NodeValidate([id |-> node_data.id, name |-> node_data.name,
                       type |-> node_data.type, typeVersion |-> node_data.typeVersion,
                       position |-> node_data.position,
                       parameters |-> Get(node_data, "parameters", EmptyDict)])

\* blueprint_to_workflow, in the order the code reads the blueprint: nodes,
\* each node, settings (indexed, not .get), name, connections, staticData.
blueprint_to_workflow(blueprint) ==
    IF "nodes" \notin DOMAIN blueprint THEN Raise(KeyError("nodes"))
    ELSE LET nodes == [i \in DOMAIN blueprint.nodes |-> NodeFromBlueprint(blueprint.nodes[i])]
             failed == {i \in DOMAIN nodes : nodes[i].kind = "raise"}
         IN IF failed # {} THEN nodes[Min(failed)]
            ELSE IF "settings" \notin DOMAIN blueprint THEN Raise(KeyError("settings"))
            ELSE IF "name" \notin DOMAIN blueprint THEN Raise(KeyError("name"))
            ELSE IF "connections" \notin DOMAIN blueprint THEN Raise(KeyError("connections"))
            ELSE WorkflowValidate(
                    [name |-> blueprint.name,
                     nodes |-> [i \in DOMAIN nodes |-> nodes[i].value],
                     connections |-> blueprint.connections,
                     settings |-> SettingsValidate(
                        [executionOrder |-> Get(blueprint.settings, "executionOrder", "v1")]).value,
                     staticData |-> Get(blueprint, "staticData", EmptyDict)])

\* The helper with `if name is not None:` for `if name:`.
create_workflow_from_blueprint_not_none(file, name, net) ==
    LET loaded == load_blueprint(file) IN
    IF loaded.kind = "raise"
    THEN [steps |-> <<"load">>, requests |-> <<>>, out |-> loaded]
    ELSE LET mapped == blueprint_to_workflow(loaded.value) IN
         IF mapped.kind = "raise"
         THEN [steps |-> <<"load", "map">>, requests |-> <<>>, out |-> mapped]
         ELSE LET workflow == IF name # None THEN [mapped.value EXCEPT !.name = name[1]]
                              ELSE mapped.value
                  created == workflows_create(workflow, net)
              IN [steps |-> <<"load", "map">>
                            \o (IF name # None THEN <<"override">> ELSE <<>>)
                            \o <<"create">>,
                  requests |-> created.requests, out |-> created.out]

\* create_workflow_from_blueprint: load, map, `if name: workflow.name = name`,
\* client.workflows.create(workflow).
create_workflow_from_blueprint(file, name, net) ==
    LET loaded == load_blueprint(file) IN
    IF loaded.kind = "raise"
    THEN [steps |-> <<"load">>, requests |-> <<>>, out |-> loaded]
    ELSE LET mapped == blueprint_to_workflow(loaded.value) IN
         IF mapped.kind = "raise"
         THEN [steps |-> <<"load", "map">>, requests |-> <<>>, out |-> mapped]
         ELSE LET workflow == IF Truthy(name) THEN [mapped.value EXCEPT !.name = name[1]]
                              ELSE mapped.value
                  created == workflows_create(workflow, net)
              IN [steps |-> <<"load", "map">>
                            \o (IF Truthy(name) THEN <<"override">> ELSE <<>>)
                            \o <<"create">>,
                  requests |-> created.requests, out |-> created.out]

\* --------------------------------------------------------------- inputs

\* dict(a, **b)
Merge(a, b) == [k \in DOMAIN a \cup DOMAIN b |-> IF k \in DOMAIN b THEN b[k] ELSE a[k]]

BoundedSeq(S, n) == UNION {[1..k -> S] : k \in 0..n}

ExampleConnections ==
    "Manual Trigger" :>
        [main |-> << << [node |-> "Execute Command", type |-> "main", index |-> 0] >> >>]

\* Nodes a caller builds with Node(...).
WebhookNode ==
    NodeValidate([id |-> "1", name |-> "Webhook", type |-> "n8n-nodes-base.webhook",
                  typeVersion |-> 1, position |-> <<250, 300>>,
                  parameters |-> [path |-> "test-webhook"]]).value

NotedNode ==
    NodeValidate([id |-> "2", name |-> "Execute Command",
                  type |-> "n8n-nodes-base.executeCommand", typeVersion |-> 1,
                  position |-> <<200, 0>>, notes |-> Some("keep"),
                  maxTries |-> Some(3), disabled |-> TRUE]).value

LocalNodes == {WebhookNode, NotedNode}

CustomSettings ==
    SettingsValidate([executionOrder |-> "v0", timezone |-> Some("UTC"),
                      saveManualExecutions |-> FALSE]).value

\* The keyword arguments of Workflow(...) a caller may give.
\* Every node list is tried with every choice of id, and every choice of the
\* other arguments with three of the node lists.
WorkflowArgs ==
    {Merge(Merge(Merge(Merge(
        [name |-> "Test Workflow", nodes |-> nodes, connections |-> connections],
        ident), settings), static), created) :
        nodes \in {<<>>, <<WebhookNode>>, <<WebhookNode, NotedNode>>},
        connections \in {EmptyDict, ExampleConnections},
        ident \in {EmptyDict, [id |-> Some("42")]},
        settings \in {EmptyDict, [settings |-> CustomSettings]},
        static \in {EmptyDict, [staticData |-> [counter |-> "1"]]},
        created \in {EmptyDict, [createdAt |-> Some("2024-01-01")]}}
    \cup {Merge([name |-> "Test Workflow", nodes |-> nodes, connections |-> EmptyDict],
                ident) :
            nodes \in BoundedSeq(LocalNodes, MaxNodes),
            ident \in {EmptyDict, [id |-> Some("42")]}}

\* The node objects of a blueprint file.
ManualTrigger ==
    [id |-> "1", name |-> "Manual Trigger", type |-> "n8n-nodes-base.manualTrigger",
     typeVersion |-> 1, position |-> <<0, 0>>]

ExecuteCommand ==
    [id |-> "2", name |-> "Execute Command", type |-> "n8n-nodes-base.executeCommand",
     typeVersion |-> 1, position |-> <<200, 0>>]

SetNode ==
    [id |-> "3", name |-> "Set", type |-> "n8n-nodes-base.set", typeVersion |-> 2,
     position |-> <<400, 0>>, parameters |-> [value |-> "x"], disabled |-> TRUE]

NodeWithoutId ==
    [name |-> "Broken", type |-> "n8n-nodes-base.noOp", typeVersion |-> 1,
     position |-> <<0, 0>>]

BlueprintNodes == {ManualTrigger, ExecuteCommand, SetNode, NodeWithoutId}

\* JSON objects a blueprint file may hold: each of name, nodes, connections,
\* settings and staticData is there or not.  Every node list is tried with
\* and without the settings, and every choice of the other members with
\* four of the node lists.
Blueprints ==
    {Merge(Merge([name |-> "My workflow", connections |-> ExampleConnections],
                 [nodes |-> ns]), settings) :
        ns \in BoundedSeq(BlueprintNodes, MaxNodes),
        settings \in {EmptyDict, [settings |-> EmptyDict]}}
    \cup
    {Merge(Merge(Merge(Merge(name, nodes), connections), settings), static) :
        name \in {EmptyDict, [name |-> "My workflow"]},
        nodes \in {EmptyDict, [nodes |-> <<>>], [nodes |-> <<NodeWithoutId>>],
                   [nodes |-> <<ManualTrigger, ExecuteCommand>>]},
        connections \in {EmptyDict, [connections |-> EmptyDict],
                         [connections |-> ExampleConnections]},
        settings \in {EmptyDict, [settings |-> EmptyDict],
                      [settings |-> [executionOrder |-> "v0"]]},
        static \in {EmptyDict, [staticData |-> [counter |-> "1"]]}}

\* The blueprint of the documented example: two nodes, one connection, no
\* settings and no staticData.
ExampleBlueprint ==
    [name |-> "My workflow", nodes |-> <<ManualTrigger, ExecuteCommand>>,
     connections |-> ExampleConnections]

Files == {MissingFile, UnreadableFile, NonTextFile, BrokenFile} \cup {JsonFile(b) : b \in Blueprints}

NameArgs == {None, Some(""), Some("Test Blueprint Workflow")}

Ids == {"42"}

DefaultLimit == 100
Limits == {DefaultLimit, 5}

\* Cursors a caller may pass on its own account.
CallerCursors == {None, Some(""), Some("page-1")}

\* --------------------------------------------------------------- server

\* What the server may answer to a workflow it was sent: the payload as it
\* is, the payload with the id it assigned, or something that is no Workflow.
WorkflowReplies(payload) ==
    {ObjectBody(payload), ObjectBody(Merge(payload, [id |-> Some("srv-1")])),
     ObjectBody(EmptyDict), ArrayBody}

StoredWorkflow ==
    [id |-> Some("42"), name |-> "Stored", nodes |-> <<ManualTrigger>>,
     connections |-> EmptyDict, active |-> FALSE, createdAt |-> Some("2024-01-01")]

StoredExecution == [id |-> 5, mode |-> "manual", workflowId |-> 7, finished |-> TRUE]

StoredCredential ==
    [id |-> Some("c-1"), name |-> "slack", type |-> "slackApi", data |-> EmptyDict]

StoredTag == [id |-> Some("t-1"), name |-> "prod"]

SlackSchema ==
    [type |-> "object", properties |-> [accessToken |-> [type |-> "string"]],
     required |-> <<"accessToken">>]

AuditReport == [credentials |-> Some([risk |-> "credentials"])]

EntityReplies(entity) == {ObjectBody(entity), ObjectBody(EmptyDict), ArrayBody}

ListReplies(entity) ==
    {ObjectBody([data |-> <<>>]),
     ObjectBody([data |-> <<entity>>, nextCursor |-> None]),
     ObjectBody([data |-> <<entity>>, nextCursor |-> Some("")]),
     ObjectBody([data |-> <<>>, nextCursor |-> Some("page-2")]),
     ObjectBody(EmptyDict), ArrayBody}

NoResponse == [kind |-> "none"]

\* -------------------------------------------------------------- actions

\* No invocation is under way: the caller is between two calls.
NoInvocation ==
    [op |-> "none", input |-> EmptyDict, requests |-> <<>>,
     resp |-> NoResponse, out |-> Return(None)]

Init ==
    /\ phase = "start"
    /\ scoped \in BOOLEAN
    /\ transport = "absent"
    /\ closeCalls = 0
    /\ bodyRaised = FALSE
    /\ probe = NoResponse
    /\ last = NoInvocation

Idle == last.op = "none"

\* The caller holds a client and is free to call it.
\* The caller holds a client object.
HoldsClient == phase \in {"constructed", "entered", "closed"}

\* The caller holds a client and is free to call it: nothing in the code
\* refuses a call before __enter__, after __exit__ or after close().
Ready == Idle /\ HoldsClient

\* What a request of the client can meet: one of `responses` while the
\* httpx.Client is open, its refusal once it is closed.
Wire(responses) == IF transport = "closed" THEN {ClosedTransport} ELSE responses

\* The status line, or the transport failure, of a response: not its body.
Met(net) ==
    IF net.kind = "transport" THEN net
    ELSE [kind |-> "status", status |-> net.status]

\* The record of an invocation that sent its requests and got `net`.
Invocation(op, input, call, net) ==
    [op |-> op, input |-> input, requests |-> call.requests,
     resp |-> IF call.requests = <<>> THEN NoResponse ELSE net, out |-> call.out]

NoCall(out) == [requests |-> <<>>, out |-> out]

Lifecycle == <<phase, scoped, transport, closeCalls, bodyRaised, probe>>

\* Cursors for a list call: the caller's own, or the nextCursor of the
\* envelope the same list call has just returned.
CursorArgs(op) ==
    IF Ready THEN {[cursor |-> c, followed |-> FALSE] : c \in CallerCursors}
    ELSE IF last.op = op /\ last.out.kind = "return" /\ last.out.value.nextCursor # None
    THEN {[cursor |-> last.out.value.nextCursor, followed |-> TRUE]}
    ELSE {}

\* N8NClient.__init__: the httpx.Client is created, then the connectivity
\* check runs; its exception leaves __init__, and no client is returned.
Construct ==
    /\ phase = "start" /\ Idle
    /\ \E api_key \in {None, Some(""), Some("secret")},
          net \in Responses(ListReplies(StoredWorkflow)) :
          LET out == verify_connection(net) IN
          /\ transport' = "open"
          /\ probe' = Met(net)
          /\ phase' = IF out.kind = "return" THEN "constructed" ELSE "failed"
          /\ last' = [op |-> "construct",
                      input |-> [api_key |-> api_key, headers |-> get_headers(api_key)],
                      requests |-> <<Req("GET", <<"workflows">>, EmptyDict, None)>>,
                      resp |-> net, out |-> out]
    /\ UNCHANGED <<scoped, closeCalls, bodyRaised>>

\* N8NClient.__enter__: returns self, whatever the client went through
\* before (a close() included).
Enter ==
    /\ scoped /\ phase \in {"constructed", "closed"} /\ Idle
    /\ closeCalls < MaxCloseCalls
    /\ phase' = "entered"
    /\ UNCHANGED <<scoped, transport, closeCalls, bodyRaised, probe, last>>

\* N8NClient.__exit__: close(), whether the body raised or not; it returns
\* None, so the body's exception goes on.
Exit ==
    /\ phase = "entered" /\ Idle
    /\ \E raised \in BOOLEAN : bodyRaised' = raised
    /\ phase' = "closed"
    /\ transport' = "closed"
    /\ closeCalls' = closeCalls + 1
    /\ UNCHANGED <<scoped, probe, last>>

\* N8NClient.close(), a public method: any caller that holds the client may
\* call it, any number of times, inside a `with` body too.
Close ==
    /\ HoldsClient /\ Idle
    /\ closeCalls < MaxCloseCalls
    /\ phase' = IF phase = "entered" THEN "entered" ELSE "closed"
    /\ transport' = "closed"
    /\ closeCalls' = closeCalls + 1
    /\ UNCHANGED <<scoped, bodyRaised, probe, last>>

\* N8NClient._request, called on the facade itself.
Request ==
    /\ Ready
    /\ \E id \in Ids, net \in Wire(Responses(EntityReplies(StoredWorkflow))) :
          last' = Invocation("_request", [method |-> "GET", endpoint |-> <<"workflows", id>>],
                             request("GET", <<"workflows", id>>, net), net)
    /\ UNCHANGED Lifecycle

WorkflowsList ==
    /\ \E limit \in Limits, arg \in CursorArgs("workflows.list"),
          net \in Wire(Responses(ListReplies(StoredWorkflow))) :
          last' = Invocation("workflows.list", Merge([limit |-> limit], arg),
                             workflows_list(limit, arg.cursor, net), net)
    /\ UNCHANGED Lifecycle

WorkflowsGet ==
    /\ Ready
    /\ \E id \in Ids, net \in Wire(Responses(EntityReplies(StoredWorkflow))) :
          last' = Invocation("workflows.get", [workflow_id |-> id],
                             workflows_get(id, net), net)
    /\ UNCHANGED Lifecycle

WorkflowsCreate ==
    /\ Ready
    /\ \E args \in WorkflowArgs :
          LET workflow == WorkflowValidate(args).value
              payload == WorkflowDump(workflow, {"id"})
          IN \E net \in Wire(Responses(WorkflowReplies(payload))) :
                last' = Invocation("workflows.create", [workflow |-> workflow],
                                   workflows_create(workflow, net), net)
    /\ UNCHANGED Lifecycle

WorkflowsUpdate ==
    /\ Ready
    /\ \E id \in Ids, args \in WorkflowArgs :
          LET workflow == WorkflowValidate(args).value
              payload == WorkflowDump(workflow, {})
          IN \E net \in Wire(Responses(WorkflowReplies(payload))) :
                last' = Invocation("workflows.update",
                                   [workflow_id |-> id, workflow |-> workflow],
                                   workflows_update(id, workflow, net), net)
    /\ UNCHANGED Lifecycle

WorkflowsDelete ==
    /\ Ready
    /\ \E id \in Ids, net \in Wire(Responses({ObjectBody(StoredWorkflow)})) :
          last' = Invocation("workflows.delete", [workflow_id |-> id],
                             workflows_delete(id, net), net)
    /\ UNCHANGED Lifecycle

ExecutionsList ==
    /\ \E limit \in Limits, arg \in CursorArgs("executions.list"),
          status \in {None, Some("error")}, workflow_id \in {None, Some("7")},
          include_data \in BOOLEAN, net \in Wire(Responses(ListReplies(StoredExecution))) :
          last' = Invocation("executions.list",
                             Merge([limit |-> limit, status |-> status,
                                    workflow_id |-> workflow_id,
                                    include_data |-> include_data], arg),
                             executions_list(limit, arg.cursor, status, workflow_id,
                                             include_data, net), net)
    /\ UNCHANGED Lifecycle

ExecutionsGet ==
    /\ Ready
    /\ \E include_data \in BOOLEAN, net \in Wire(Responses(EntityReplies(StoredExecution))) :
          last' = Invocation("executions.get",
                             [execution_id |-> "5", include_data |-> include_data],
                             executions_get("5", include_data, net), net)
    /\ UNCHANGED Lifecycle

ExecutionsDelete ==
    /\ Ready
    /\ \E net \in Wire(Responses({ObjectBody(StoredExecution)})) :
          last' = Invocation("executions.delete", [execution_id |-> "5"],
                             executions_delete("5", net), net)
    /\ UNCHANGED Lifecycle

CredentialsList ==
    /\ \E limit \in Limits, arg \in CursorArgs("credentials.list"),
          net \in Wire(Responses(ListReplies(StoredCredential))) :
          last' = Invocation("credentials.list", Merge([limit |-> limit], arg),
                             credentials_list(limit, arg.cursor, net), net)
    /\ UNCHANGED Lifecycle

CredentialsCreate ==
    /\ Ready
    /\ \E ident \in {EmptyDict, [id |-> Some("c-9")]},
          net \in Wire(Responses(EntityReplies(StoredCredential))) :
          LET credential == ValidateModel("Credential",
                                Merge([name |-> "slack", type |-> "slackApi",
                                       data |-> [accessToken |-> "xoxb"]], ident)).value
          IN last' = Invocation("credentials.create", [credential |-> credential],
                                credentials_create(credential, net), net)
    /\ UNCHANGED Lifecycle

CredentialsDelete ==
    /\ Ready
    /\ \E net \in Wire(Responses({ObjectBody(StoredCredential)})) :
          last' = Invocation("credentials.delete", [credential_id |-> "c-1"],
                             credentials_delete("c-1", net), net)
    /\ UNCHANGED Lifecycle

CredentialsGetSchema ==
    /\ Ready
    /\ \E net \in Wire(Responses(EntityReplies(SlackSchema))) :
          last' = Invocation("credentials.get_schema", [credential_type |-> "slackApi"],
                             credentials_get_schema("slackApi", net), net)
    /\ UNCHANGED Lifecycle

TagsList ==
    /\ \E limit \in Limits, arg \in CursorArgs("tags.list"),
          net \in Wire(Responses(ListReplies(StoredTag))) :
          last' = Invocation("tags.list", Merge([limit |-> limit], arg),
                             tags_list(limit, arg.cursor, net), net)
    /\ UNCHANGED Lifecycle

TagsCreate ==
    /\ Ready
    /\ \E ident \in {EmptyDict, [id |-> Some("t-9")]},
          net \in Wire(Responses(EntityReplies(StoredTag))) :
          LET tag == ValidateModel("Tag", Merge([name |-> "prod"], ident)).value
          IN last' = Invocation("tags.create", [tag |-> tag], tags_create(tag, net), net)
    /\ UNCHANGED Lifecycle

TagsGet ==
    /\ Ready
    /\ \E net \in Wire(Responses(EntityReplies(StoredTag))) :
          last' = Invocation("tags.get", [tag_id |-> "t-1"], tags_get("t-1", net), net)
    /\ UNCHANGED Lifecycle

TagsDelete ==
    /\ Ready
    /\ \E net \in Wire(Responses({ObjectBody(StoredTag)})) :
          last' = Invocation("tags.delete", [tag_id |-> "t-1"], tags_delete("t-1", net), net)
    /\ UNCHANGED Lifecycle

AuditGenerate ==
    /\ Ready
    /\ \E options \in {None,
                       Some(ValidateModel("AuditOptions", EmptyDict).value),
                       Some(ValidateModel("AuditOptions",
                            [additionalOptions |-> Some([categories |-> "nodes"])]).value)},
          net \in Wire(Responses(EntityReplies(AuditReport))) :
          last' = Invocation("audit.generate", [options |-> options],
                             audit_generate(options, net), net)
    /\ UNCHANGED Lifecycle

\* load_blueprint(file_path): needs no client.
LoadBlueprint ==
    /\ Idle
    /\ \E file \in Files :
          last' = Invocation("load_blueprint", [file |-> file],
                             NoCall(load_blueprint(file)), NoResponse)
    /\ UNCHANGED Lifecycle

\* blueprint_to_workflow(blueprint): needs no client.
BlueprintToWorkflow ==
    /\ Idle
    /\ \E blueprint \in Blueprints :
          last' = Invocation("blueprint_to_workflow", [blueprint |-> blueprint],
                             NoCall(blueprint_to_workflow(blueprint)), NoResponse)
    /\ UNCHANGED Lifecycle

\* create_workflow_from_blueprint(client, file_path, name)
CreateWorkflowFromBlueprint ==
    /\ Ready
    /\ \E file \in Files, name \in NameArgs :
          LET dry == create_workflow_from_blueprint(file, name, TransportFailure("httpx.ConnectError"))
              replies == IF dry.requests = <<>> THEN {NoResponse}
                         ELSE Wire(Responses(WorkflowReplies(dry.requests[1].json[1])))
          IN \E net \in replies :
                LET run == create_workflow_from_blueprint(file, name, net) IN
                last' = [op |-> "create_workflow_from_blueprint",
                         input |-> [file |-> file, name |-> name],
                         steps |-> run.steps, requests |-> run.requests,
                         resp |-> IF run.requests = <<>> THEN NoResponse ELSE net,
                         out |-> run.out]
    /\ UNCHANGED Lifecycle

\* The caller takes the outcome of the invocation and goes on.
Resume ==
    /\ ~Idle
    /\ last' = NoInvocation
    /\ UNCHANGED Lifecycle

Next ==
    \/ Resume
    \/ Construct \/ Enter \/ Exit \/ Close \/ Request
    \/ WorkflowsList \/ WorkflowsGet \/ WorkflowsCreate \/ WorkflowsUpdate \/ WorkflowsDelete
    \/ ExecutionsList \/ ExecutionsGet \/ ExecutionsDelete
    \/ CredentialsList \/ CredentialsCreate \/ CredentialsDelete \/ CredentialsGetSchema
    \/ TagsList \/ TagsCreate \/ TagsGet \/ TagsDelete
    \/ AuditGenerate
    \/ LoadBlueprint \/ BlueprintToWorkflow \/ CreateWorkflowFromBlueprint

Spec == Init /\ [][Next]_vars

\* ----------------------------------------------------------- properties

\* The error kinds of the specification (ConnectionError, ApiError,
\* BlueprintError) are errors of the library: the code has one exception class
\* of its own, N8NError.  Anything else the caller sees is the raw exception
\* of httpx, json, pydantic or Python.
LibraryError(exc) == exc.cls = "N8NError"

SubClientOps ==
    {"workflows.list", "workflows.get", "workflows.create", "workflows.update",
     "workflows.delete", "executions.list", "executions.get", "executions.delete",
     "credentials.list", "credentials.create", "credentials.delete",
     "credentials.get_schema", "tags.list", "tags.create", "tags.get", "tags.delete",
     "audit.generate"}

ListOps == {"workflows.list", "executions.list", "credentials.list", "tags.list"}

\* The response has a status code that is not 2xx.
NonSuccess(resp) == resp.kind = "status" /\ ~is_success(resp)

Success(resp) == resp.kind = "status" /\ is_success(resp)

\* C1: when the GET /workflows connectivity check of the constructor meets a
\* non-2xx status or a transport failure, the constructor raises the
\* library's connection error and returns no client; the caller never holds
\* a client whose check failed.
C1_FailedCheckReturnsNoClient ==
    /\ (last.op = "construct" /\ ~Success(last.resp)) =>
          /\ last.out.kind = "raise"
          /\ LibraryError(last.out.exc)
          /\ last.out.exc.msg = "Failed to connect to N8N instance"
          /\ phase = "failed"
    /\ last.op = "construct" =>
          /\ Len(last.requests) = 1
          /\ last.requests[1].method = "GET"
          /\ last.requests[1].path = <<"workflows">>
    /\ HoldsClient => Success(probe)

C1_Witness ==
    /\ last.op = "construct" /\ NonSuccess(last.resp)
    /\ phase = "failed" /\ last.out.kind = "raise"

\* C2: every sub-client call that receives a non-2xx response raises the
\* library's API error, whose status is the response's status code and
\* which carries the raw body; nothing else is raised and nothing is returned.
C2_NonSuccessRaisesApiError ==
    (last.op \in SubClientOps /\ NonSuccess(last.resp)) =>
        /\ last.out.kind = "raise"
        /\ LibraryError(last.out.exc)
        /\ last.out.exc.response # None
        /\ last.out.exc.response[1].status = last.resp.status
        /\ last.out.exc.response[1].body = last.resp.body

\* A blueprint with name, nodes and connections, each node with its five
\* required members; settings and staticData may be missing.
ValidBlueprint(bp) ==
    /\ {"name", "nodes", "connections"} \subseteq DOMAIN bp
    /\ \A i \in DOMAIN bp.nodes :
          {"id", "name", "type", "typeVersion", "position"} \subseteq DOMAIN bp.nodes[i]

\* C3: for every valid blueprint, blueprint_to_workflow returns a Workflow
\* with the blueprint's nodes in number and order, with connections equal to
\* the blueprint's, and with settings.executionOrder the blueprint's if it
\* has one and "v1" otherwise, also when the blueprint has no settings.
C3_ValidBlueprintMaps ==
    (last.op = "blueprint_to_workflow" /\ ValidBlueprint(last.input.blueprint)) =>
        LET bp == last.input.blueprint IN
        /\ last.out.kind = "return"
        /\ Len(last.out.value.nodes) = Len(bp.nodes)
        /\ \A i \in DOMAIN bp.nodes :
              /\ last.out.value.nodes[i].id = bp.nodes[i].id
              /\ last.out.value.nodes[i].type = bp.nodes[i].type
        /\ last.out.value.connections = bp.connections
        /\ last.out.value.settings.executionOrder =
              (IF "settings" \in DOMAIN bp /\ "executionOrder" \in DOMAIN bp.settings
               THEN bp.settings.executionOrder ELSE "v1")

\* No Optional member of the dumped model `d` is null.
NoNulls(s, d) == \A k \in DOMAIN d \cap s.opt : d[k] # None

\* C4: the body workflows.create and workflows.update submit has no `id` key
\* and no null member, whether or not the Workflow has an id.
C4_BodyOmitsIdAndNulls ==
    (last.op \in {"workflows.create", "workflows.update"} /\ last.requests # <<>>) =>
        LET body == last.requests[1].json[1] IN
        /\ "id" \notin DOMAIN body
        /\ NoNulls(WorkflowSchema, body)
        /\ NoNulls(WorkflowSettingsSchema, body.settings)
        /\ \A i \in DOMAIN body.nodes : NoNulls(NodeSchema, body.nodes[i])

MissingRequired(bp) == ~({"name", "nodes", "connections"} \subseteq DOMAIN bp)

\* C5: a blueprint without nodes, name or connections makes
\* blueprint_to_workflow fail with the library's blueprint error, and with
\* no other kind of error.
C5_MissingRaisesBlueprintError ==
    (last.op = "blueprint_to_workflow" /\ MissingRequired(last.input.blueprint)) =>
        /\ last.out.kind = "raise"
        /\ LibraryError(last.out.exc)

\* The server answers 2xx with exactly the JSON object it was sent.
EchoedCreate ==
    /\ last.op = "workflows.create"
    /\ Success(last.resp)
    /\ last.resp.body = ObjectBody(last.requests[1].json[1])

\* C6 as written: a Workflow built locally, dumped for submission and
\* decoded from an echo of that payload, equals the original on every field
\* the caller set.
C6_RoundTripAllFields ==
    EchoedCreate =>
        /\ last.out.kind = "return"
        /\ last.out.value = last.input.workflow

\* C6, amended: it equals the original on every field but id, which the
\* payload leaves out and which therefore comes back unset.
C6_RoundTripButId ==
    EchoedCreate =>
        /\ last.out.kind = "return"
        /\ last.out.value = [last.input.workflow EXCEPT !.id = None]

C6_Witness ==
    /\ EchoedCreate
    /\ last.input.workflow.id = Some("42")
    /\ Len(last.input.workflow.nodes) = 2
    /\ last.input.workflow.nodes[2].notes = Some("keep")
    /\ last.input.workflow.settings.timezone = Some("UTC")
    /\ last.input.workflow.createdAt # None
    /\ last.out.kind = "return" /\ last.out.value.id = None

\* C7 as written: the request of a list call always has `limit`, and has
\* `cursor` exactly when the caller gave one, unchanged.
C7_CursorSentWhenGiven ==
    (last.op \in ListOps /\ last.requests # <<>>) =>
        LET params == last.requests[1].params IN
        /\ Len(last.requests) = 1
        /\ "limit" \in DOMAIN params /\ params.limit = last.input.limit
        /\ "cursor" \in DOMAIN params <=> last.input.cursor # None
        /\ "cursor" \in DOMAIN params => params.cursor = last.input.cursor[1]

\* C7, amended: the request of a list call always has `limit`, and has
\* `cursor` exactly when the caller gave a cursor that is not the empty
\* string, unchanged, also when it is the nextCursor of the page before.
C7_CursorSentWhenNonEmpty ==
    (last.op \in ListOps /\ last.requests # <<>>) =>
        LET params == last.requests[1].params IN
        /\ Len(last.requests) = 1
        /\ "limit" \in DOMAIN params /\ params.limit = last.input.limit
        /\ "cursor" \in DOMAIN params <=>
              (last.input.cursor # None /\ last.input.cursor # Some(""))
        /\ "cursor" \in DOMAIN params => params.cursor = last.input.cursor[1]

C7_Witness ==
    /\ last.op = "executions.list"
    /\ last.input.followed
    /\ last.input.cursor = Some("page-2")
    /\ last.requests[1].params.cursor = "page-2"
    /\ last.requests[1].params.limit = DefaultLimit

\* C8: under `with N8NClient(...)`, once the transport has been opened it is
\* closed exactly once by the time the statement is left, whether the body
\* ended normally, the body raised, or the connectivity check failed.
C8_ScopedClosesOnce ==
    /\ [](scoped /\ phase = "failed" => (closeCalls = 1 /\ transport = "closed"))
    /\ [][(phase = "entered" /\ phase' = "closed") =>
            (closeCalls' = 1 /\ transport' = "closed")]_vars

\* C9: a transport failure of a sub-client call reaches the caller as the
\* library's connection error, a 2xx body of the wrong shape as a
\* ValidationError, and never as the raw exception of the transport library.
C9_TransportFailureIsConnectionError ==
    last.op \in SubClientOps =>
        /\ last.resp.kind = "transport" =>
              (last.out.kind = "raise" /\ LibraryError(last.out.exc))
        /\ (Success(last.resp) /\ last.resp.body.kind = "array") =>
              (last.out.kind = "raise"
               /\ last.out.exc.cls \in {"pydantic.ValidationError", "N8NError"})
        /\ last.out.kind = "raise" => ~IsHTTPError(last.out.exc.cls)

HelperSteps ==
    {<<"load">>, <<"load", "map">>, <<"load", "map", "create">>,
     <<"load", "map", "override", "create">>}

\* What C10 says of the order of the steps and of the value returned.
C10_OrderAndResult ==
    LET loaded == load_blueprint(last.input.file) IN
    /\ last.steps \in HelperSteps
    /\ Len(last.requests) <= 1
    /\ loaded.kind = "raise" => (last.requests = <<>> /\ last.out = loaded)
    /\ (loaded.kind = "return" /\ blueprint_to_workflow(loaded.value).kind = "raise") =>
          (last.requests = <<>> /\ last.out = blueprint_to_workflow(loaded.value))
    /\ last.requests # <<>> =>
          /\ last.steps[Len(last.steps)] = "create"
          /\ last.requests[1].method = "POST"
          /\ last.requests[1].path = <<"workflows">>
    /\ (last.requests # <<>> /\ Success(last.resp) /\ last.resp.body.kind = "object"
            /\ {"name", "nodes", "connections"} \subseteq DOMAIN last.resp.body.val) =>
          /\ last.out.kind = "return"
          /\ last.out.value.id = Get(last.resp.body.val, "id", None)
          /\ last.out.value.name = last.resp.body.val.name

\* C10 as written: load, map, override, create in this order; no request
\* unless load and map succeeded; the name submitted is the name argument
\* whenever one is given, the blueprint's otherwise; the value returned is
\* the one decoded from the server's response.
C10_NameGivenOverrides ==
    last.op = "create_workflow_from_blueprint" =>
        /\ C10_OrderAndResult
        /\ last.requests # <<>> =>
              last.requests[1].json[1].name =
                  (IF last.input.name # None THEN last.input.name[1]
                   ELSE last.input.file.val.name)

\* C10, amended: the name submitted is the name argument whenever one is
\* given and is not the empty string, the blueprint's otherwise.
C10_NonEmptyNameOverrides ==
    last.op = "create_workflow_from_blueprint" =>
        /\ C10_OrderAndResult
        /\ last.requests # <<>> =>
              /\ last.requests[1].json[1].name =
                    (IF last.input.name # None /\ last.input.name # Some("")
                     THEN last.input.name[1]
                     ELSE last.input.file.val.name)
              /\ ("override" \in {last.steps[i] : i \in DOMAIN last.steps}) <=>
                    (last.input.name # None /\ last.input.name # Some(""))

C10_Witness ==
    /\ last.op = "create_workflow_from_blueprint"
    /\ last.input.name = Some("Test Blueprint Workflow")
    /\ last.steps = <<"load", "map", "override", "create">>
    /\ last.requests[1].json[1].name = "Test Blueprint Workflow"
    /\ last.out.kind = "return"
    /\ last.out.value.id = Some("srv-1")

\* The raw exceptions of the file system, of the decoding of the file's
\* bytes and of the JSON parser.
FileErrors == {"FileNotFoundError", "PermissionError", "UnicodeDecodeError"}
ParserErrors == {"json.JSONDecodeError"}

\* C11: load_blueprint raises the library's blueprint error on every I/O
\* failure (file missing or unreadable) and on every JSON syntax error,
\* returns the parsed document otherwise, and no raw file-system or parser
\* error reaches the caller.
C11_FailureRaisesBlueprintError ==
    last.op = "load_blueprint" =>
        /\ last.input.file.kind \in {"missing", "unreadable", "bytes", "text"} =>
              (last.out.kind = "raise" /\ LibraryError(last.out.exc))
        /\ last.input.file.kind = "json" => last.out = Return(last.input.file.val)
        /\ last.out.kind = "raise" =>
              last.out.exc.cls \notin FileErrors \cup ParserErrors

\* What C12 says of one invocation: it sent exactly one request, and when
\* that request met a transport failure or a non-2xx response the invocation
\* itself ended with the exception of that very failure.
OneRequestFailurePropagates ==
    last.op \in SubClientOps =>
        /\ Len(last.requests) = 1
        /\ last.resp.kind = "transport" =>
              (last.out.kind = "raise" /\ last.out.exc.cls = last.resp.err)
        /\ NonSuccess(last.resp) =>
              /\ last.out.kind = "raise"
              /\ last.out.exc.cls = "httpx.HTTPStatusError"
              /\ last.out.exc.response = Some(last.resp)

\* After an invocation of a sub-client method has failed, nothing is sent on
\* its behalf: the next step is the caller's, who takes the exception.
NoRequestAfterFailure ==
    (last.op \in SubClientOps /\ last.out.kind = "raise") =>
        (last' = NoInvocation /\ UNCHANGED Lifecycle)

OneRequestUnlessClosed ==
    last.op \in SubClientOps =>
        /\ transport = "open" => OneRequestFailurePropagates
        /\ transport = "closed" =>
              /\ last.requests = <<>>
              /\ last.out.kind = "raise"
              /\ last.out.exc.cls = "RuntimeError"

C12_CalledAfterClose ==
    /\ last.op = "workflows.get"
    /\ transport = "closed" /\ closeCalls = 1
    /\ last.requests = <<>>
    /\ last.out.kind = "raise" /\ last.out.exc.cls = "RuntimeError"
====
